---- MODULE Spec2Model ----
(***************************************************************************)
(* Prompt Synthesizer (src/prompt_synthesizer.py): a Streamlit script.     *)
(* Streamlit runs the whole script top to bottom on the first page load    *)
(* and again on every widget interaction; one script run is one step of    *)
(* this model.  Text is a sequence of one-character strings, so that       *)
(* str.lower, str.count, f-string interpolation, html.escape and the CSV   *)
(* round trip of the history file are computed on the characters.  A       *)
(* character outside ASCII is written "U+XXXX".                            *)
(***************************************************************************)
EXTENDS Integers, Sequences, FiniteSets, TLC

\* ------------------------------------------------------------------ bounds

\* Most rows the history file holds before the model stops submitting.
MaxHistory == 2
\* Most tokens a typed goal is built from in AssembleSpec.
MaxTokens == 3

\* ------------------------------------------------------ program constants

\* st.slider("Prompt Inception Depth", 1, 5, 1): minimum, maximum, default.
MinDepth == 1
MaxDepth == 5
DefaultDepth == 1
\* if depth >= 4: the depth from which the warning is shown.
WarningDepth == 4
\* goal.lower().count("prompt") >= 3
RecursionThreshold == 3

\* ------------------------------------------------------------ text helpers

\* "prompt", the keyword of the recursion heuristic (src line 225).
Keyword == <<"p","r","o","m","p","t">>

UpperToLower ==
  ("A" :> "a") @@ ("B" :> "b") @@ ("C" :> "c") @@ ("D" :> "d") @@ ("E" :> "e") @@
  ("F" :> "f") @@ ("G" :> "g") @@ ("H" :> "h") @@ ("I" :> "i") @@ ("J" :> "j") @@
  ("K" :> "k") @@ ("L" :> "l") @@ ("M" :> "m") @@ ("N" :> "n") @@ ("O" :> "o") @@
  ("P" :> "p") @@ ("Q" :> "q") @@ ("R" :> "r") @@ ("S" :> "s") @@ ("T" :> "t") @@
  ("U" :> "u") @@ ("V" :> "v") @@ ("W" :> "w") @@ ("X" :> "x") @@ ("Y" :> "y") @@
  ("Z" :> "z")

UpperLetters == DOMAIN UpperToLower

\* One character of str.lower(): A-Z map to a-z, every other character the inputs
\* use is kept.
LowerChar(c) == IF c \in UpperLetters THEN UpperToLower[c] ELSE c

\* str.lower(): every character mapped, the two halves of the text in turn.
RECURSIVE lower(_)
lower(s) ==
  IF Len(s) = 0 THEN << >>
  ELSE IF Len(s) = 1 THEN <<LowerChar(s[1])>>
  ELSE lower(SubSeq(s, 1, Len(s) \div 2)) \o lower(SubSeq(s, Len(s) \div 2 + 1, Len(s)))

\* s[i:].startswith(sub), positions counted from 1.
StartsAt(s, sub, i) ==
  /\ i >= 1
  /\ i + Len(sub) - 1 <= Len(s)
  /\ \A k \in 1..Len(sub) : s[i + k - 1] = sub[k]

\* sub in s
Contains(s, sub) == \E i \in 1..(Len(s) + 1) : StartsAt(s, sub, i)

\* The places at or after i where sub occurs in s.
MatchesFrom(s, sub, i) == {j \in i..(Len(s) - Len(sub) + 1) : StartsAt(s, sub, j)}

Min(S) == CHOOSE x \in S : \A y \in S : x <= y

\* str.count(sub) for a non-empty sub: the leftmost occurrence at or after i is
\* counted and the scan goes on behind it, so that counted occurrences do not overlap.
RECURSIVE CountFrom(_, _, _)
CountFrom(s, sub, i) ==
  IF MatchesFrom(s, sub, i) = {} THEN 0
  ELSE 1 + CountFrom(s, sub, Min(MatchesFrom(s, sub, i)) + Len(sub))

count(s, sub) == CountFrom(s, sub, 1)

Digits == <<"0","1","2","3","4","5","6","7","8","9">>

\* str(n) of a natural number, as the f-string writes {depth}.
RECURSIVE IntToStr(_)
IntToStr(n) ==
  IF n < 10 THEN <<Digits[n + 1]>>
  ELSE IntToStr(n \div 10) \o <<Digits[(n % 10) + 1]>>

\* html.escape(s): & < > " ' become entities (quote=True is the default).
EscapeChar(c) ==
  IF c = "&" THEN <<"&","a","m","p",";">>
  ELSE IF c = "<" THEN <<"&","l","t",";">>
  ELSE IF c = ">" THEN <<"&","g","t",";">>
  ELSE IF c = "\"" THEN <<"&","q","u","o","t",";">>
  ELSE IF c = "'" THEN <<"&","#","x","2","7",";">>
  ELSE <<c>>

RECURSIVE html_escape(_)
html_escape(s) ==
  IF Len(s) = 0 THEN << >>
  ELSE IF Len(s) = 1 THEN EscapeChar(s[1])
  ELSE html_escape(SubSeq(s, 1, Len(s) \div 2))
         \o html_escape(SubSeq(s, Len(s) \div 2 + 1, Len(s)))

\* list.index(x): the first position of x, 0 standing for ValueError.
Index(list, x) ==
  IF \E i \in 1..Len(list) : list[i] = x
  THEN CHOOSE i \in 1..Len(list) : list[i] = x /\ \A j \in 1..(i - 1) : list[j] # x
  ELSE 0

\* ----------------------------------------------------------- the catalog

\* valid_tones (src lines 54-59): the 16 labels of the tone selectbox, in list order.
valid_tones ==
  << \* 1: Clear and helpful
     <<"C","l","e","a","r"," ","a","n","d"," ","h","e","l","p","f","u","l">>,
     \* 2: Professional
     <<"P","r","o","f","e","s","s","i","o","n","a","l">>,
     \* 3: Casual
     <<"C","a","s","u","a","l">>,
     \* 4: Funny
     <<"F","u","n","n","y">>,
     \* 5: Creative
     <<"C","r","e","a","t","i","v","e">>,
     \* 6: Motivational
     <<"M","o","t","i","v","a","t","i","o","n","a","l">>,
     \* 7: Witty
     <<"W","i","t","t","y">>,
     \* 8: Analytical
     <<"A","n","a","l","y","t","i","c","a","l">>,
     \* 9: Cynical but comforting
     <<"C","y","n","i","c","a","l"," ","b","u","t"," ","c","o","m","f","o","r","t","i","n","g">>,
     \* 10: Roasty
     <<"R","o","a","s","t","y">>,
     \* 11: Passive aggressive
     <<"P","a","s","s","i","v","e"," ","a","g","g","r","e","s","s","i","v","e">>,
     \* 12: Aggressively encouraging
     <<"A","g","g","r","e","s","s","i","v","e","l","y"," ","e","n","c","o","u","r","a","g","i",
       "n","g">>,
     \* 13: Satirical
     <<"S","a","t","i","r","i","c","a","l">>,
     \* 14: Irritated
     <<"I","r","r","i","t","a","t","e","d">>,
     \* 15: Snarky
     <<"S","n","a","r","k","y">>,
     \* 16: Reflective
     <<"R","e","f","l","e","c","t","i","v","e">> >>

\* The options of the output-format selectbox (src lines 214-215), in list order.
output_types ==
  << \* 1: Text
     <<"T","e","x","t">>,
     \* 2: Conversation
     <<"C","o","n","v","e","r","s","a","t","i","o","n">>,
     \* 3: Image Prompt
     <<"I","m","a","g","e"," ","P","r","o","m","p","t">>,
     \* 4: Markdown
     <<"M","a","r","k","d","o","w","n">>,
     \* 5: Bullet List
     <<"B","u","l","l","e","t"," ","L","i","s","t">>,
     \* 6: JSON
     <<"J","S","O","N">> >>

\* templates_by_category (src lines 62-159). A Python dict keeps insertion order, so the
\* catalog is a sequence of categories, each a sequence of (name, data) entries.
templates_by_category ==
  << [category |-> "Real Estate",
      entries |-> <<
        [name |-> "Cold Outreach Message",
         data |-> [
           \* Craft a short, attention-grabbing message to reach out to a new commercial real estate prospect in Tucson, AZ.
           goal |-> <<"C","r","a","f","t"," ","a"," ","s","h","o","r","t",","," ","a","t","t","e","n",
             "t","i","o","n","-","g","r","a","b","b","i","n","g"," ","m","e","s","s","a","g",
             "e"," ","t","o"," ","r","e","a","c","h"," ","o","u","t"," ","t","o"," ","a"," ",
             "n","e","w"," ","c","o","m","m","e","r","c","i","a","l"," ","r","e","a","l"," ",
             "e","s","t","a","t","e"," ","p","r","o","s","p","e","c","t"," ","i","n"," ","T",
             "u","c","s","o","n",","," ","A","Z",".">>,
           tone |-> <<"P","r","o","f","e","s","s","i","o","n","a","l">>,
           output_type |-> <<"T","e","x","t">>,
           audience |-> <<"C","o","m","m","e","r","c","i","a","l"," ","p","r","o","p","e","r","t","y"," ",
             "o","w","n","e","r","s">>]],
        [name |-> "Market Summary Generator",
         data |-> [
           \* Summarize the current real estate market trends for investors in a specific submarket.
           goal |-> <<"S","u","m","m","a","r","i","z","e"," ","t","h","e"," ","c","u","r","r","e","n",
             "t"," ","r","e","a","l"," ","e","s","t","a","t","e"," ","m","a","r","k","e","t",
             " ","t","r","e","n","d","s"," ","f","o","r"," ","i","n","v","e","s","t","o","r",
             "s"," ","i","n"," ","a"," ","s","p","e","c","i","f","i","c"," ","s","u","b","m",
             "a","r","k","e","t",".">>,
           tone |-> <<"C","l","e","a","r"," ","a","n","d"," ","h","e","l","p","f","u","l">>,
           output_type |-> <<"M","a","r","k","d","o","w","n">>,
           audience |-> <<"C","R","E"," ","i","n","v","e","s","t","o","r","s">>]],
        [name |-> "Deal Analysis Helper",
         data |-> [
           \* Help analyze the pros and cons of an industrial property investment opportunity in Tucson, AZ.
           goal |-> <<"H","e","l","p"," ","a","n","a","l","y","z","e"," ","t","h","e"," ","p","r","o",
             "s"," ","a","n","d"," ","c","o","n","s"," ","o","f"," ","a","n"," ","i","n","d",
             "u","s","t","r","i","a","l"," ","p","r","o","p","e","r","t","y"," ","i","n","v",
             "e","s","t","m","e","n","t"," ","o","p","p","o","r","t","u","n","i","t","y"," ",
             "i","n"," ","T","u","c","s","o","n",","," ","A","Z",".">>,
           tone |-> <<"A","n","a","l","y","t","i","c","a","l">>,
           output_type |-> <<"B","u","l","l","e","t"," ","L","i","s","t">>,
           audience |-> <<"C","R","E"," ","a","n","a","l","y","s","t","s"," ","a","n","d"," ","b","r","o",
             "k","e","r","s">>]] >>],
     [category |-> "Productivity & Learning",
      entries |-> <<
        [name |-> "Productivity Prompt Planner",
         data |-> [
           \* Generate a set of focused prompts to help me plan and prioritize my day effectively.
           goal |-> <<"G","e","n","e","r","a","t","e"," ","a"," ","s","e","t"," ","o","f"," ","f","o",
             "c","u","s","e","d"," ","p","r","o","m","p","t","s"," ","t","o"," ","h","e","l",
             "p"," ","m","e"," ","p","l","a","n"," ","a","n","d"," ","p","r","i","o","r","i",
             "t","i","z","e"," ","m","y"," ","d","a","y"," ","e","f","f","e","c","t","i","v",
             "e","l","y",".">>,
           tone |-> <<"M","o","t","i","v","a","t","i","o","n","a","l">>,
           output_type |-> <<"B","u","l","l","e","t"," ","L","i","s","t">>,
           audience |-> <<"B","u","s","y"," ","p","r","o","f","e","s","s","i","o","n","a","l","s"," ","a",
             "n","d"," ","p","r","o","d","u","c","t","i","v","i","t","y"," ","n","e","r","d",
             "s">>]],
        [name |-> "Prompt Engineering Optimizer",
         data |-> [
           \* Take a rough prompt I've written and improve it so it's more structured, clear, and effective.
           goal |-> <<"T","a","k","e"," ","a"," ","r","o","u","g","h"," ","p","r","o","m","p","t"," ",
             "I","'","v","e"," ","w","r","i","t","t","e","n"," ","a","n","d"," ","i","m","p",
             "r","o","v","e"," ","i","t"," ","s","o"," ","i","t","'","s"," ","m","o","r","e",
             " ","s","t","r","u","c","t","u","r","e","d",","," ","c","l","e","a","r",","," ",
             "a","n","d"," ","e","f","f","e","c","t","i","v","e",".">>,
           tone |-> <<"C","l","e","a","r"," ","a","n","d"," ","h","e","l","p","f","u","l">>,
           output_type |-> <<"M","a","r","k","d","o","w","n">>,
           audience |-> <<"A","n","y","o","n","e"," ","l","e","a","r","n","i","n","g"," ","h","o","w"," ",
             "t","o"," ","p","r","o","m","p","t"," ","b","e","t","t","e","r">>]],
        [name |-> "Weekly Review Wizard",
         data |-> [
           \* Guide me through a weekly review of what I accomplished, learned, and what I want to focus on next.
           goal |-> <<"G","u","i","d","e"," ","m","e"," ","t","h","r","o","u","g","h"," ","a"," ","w",
             "e","e","k","l","y"," ","r","e","v","i","e","w"," ","o","f"," ","w","h","a","t",
             " ","I"," ","a","c","c","o","m","p","l","i","s","h","e","d",","," ","l","e","a",
             "r","n","e","d",","," ","a","n","d"," ","w","h","a","t"," ","I"," ","w","a","n",
             "t"," ","t","o"," ","f","o","c","u","s"," ","o","n"," ","n","e","x","t",".">>,
           tone |-> <<"R","e","f","l","e","c","t","i","v","e">>,
           output_type |-> <<"C","o","n","v","e","r","s","a","t","i","o","n">>,
           audience |-> <<"P","e","r","s","o","n","a","l"," ","g","r","o","w","t","h"," ","a","n","d"," ",
             "p","r","o","d","u","c","t","i","v","i","t","y"," ","f","o","c","u","s","e","d",
             " ","u","s","e","r","s">>]] >>],
     [category |-> "Creative & Fun",
      entries |-> <<
        [name |-> "Vibecode Brainstorm Buddy",
         data |-> [
           \* Come up with fresh, creative app or automation ideas that I could build with my current skills.
           goal |-> <<"C","o","m","e"," ","u","p"," ","w","i","t","h"," ","f","r","e","s","h",","," ",
             "c","r","e","a","t","i","v","e"," ","a","p","p"," ","o","r"," ","a","u","t","o",
             "m","a","t","i","o","n"," ","i","d","e","a","s"," ","t","h","a","t"," ","I"," ",
             "c","o","u","l","d"," ","b","u","i","l","d"," ","w","i","t","h"," ","m","y"," ",
             "c","u","r","r","e","n","t"," ","s","k","i","l","l","s",".">>,
           tone |-> <<"C","r","e","a","t","i","v","e">>,
           output_type |-> <<"B","u","l","l","e","t"," ","L","i","s","t">>,
           audience |-> <<"A"," ","v","i","b","e","c","o","d","e","r"," ","l","o","o","k","i","n","g"," ",
             "f","o","r"," ","w","e","e","k","e","n","d"," ","b","u","i","l","d"," ","i","d",
             "e","a","s">>]],
        [name |-> "Mindset Reframe",
         data |-> [
           \* Help me reframe a negative thought or frustration into something more constructive and empowering.
           goal |-> <<"H","e","l","p"," ","m","e"," ","r","e","f","r","a","m","e"," ","a"," ","n","e",
             "g","a","t","i","v","e"," ","t","h","o","u","g","h","t"," ","o","r"," ","f","r",
             "u","s","t","r","a","t","i","o","n"," ","i","n","t","o"," ","s","o","m","e","t",
             "h","i","n","g"," ","m","o","r","e"," ","c","o","n","s","t","r","u","c","t","i",
             "v","e"," ","a","n","d"," ","e","m","p","o","w","e","r","i","n","g",".">>,
           tone |-> <<"W","i","t","t","y">>,
           output_type |-> <<"T","e","x","t">>,
           audience |-> <<"S","o","m","e","o","n","e"," ","i","n"," ","a"," ","f","u","n","k"," ","w","h",
             "o"," ","n","e","e","d","s"," ","a"," ","b","o","o","s","t">>]],
        [name |-> "Existential Crisis Coach",
         data |-> [
           \* Help me cope with the crushing weight of late capitalism using sarcasm and dark humor.
           goal |-> <<"H","e","l","p"," ","m","e"," ","c","o","p","e"," ","w","i","t","h"," ","t","h",
             "e"," ","c","r","u","s","h","i","n","g"," ","w","e","i","g","h","t"," ","o","f",
             " ","l","a","t","e"," ","c","a","p","i","t","a","l","i","s","m"," ","u","s","i",
             "n","g"," ","s","a","r","c","a","s","m"," ","a","n","d"," ","d","a","r","k"," ",
             "h","u","m","o","r",".">>,
           tone |-> <<"C","y","n","i","c","a","l"," ","b","u","t"," ","c","o","m","f","o","r","t","i",
             "n","g">>,
           output_type |-> <<"T","e","x","t">>,
           audience |-> <<"M","i","l","l","e","n","n","i","a","l","s"," ","s","p","i","r","a","l","i","n",
             "g"," ","a","t"," ","2","A","M">>]],
        [name |-> "Roast My Life Decisions",
         data |-> [
           \* Make fun of me for buying a $7 latte instead of saving for retirement, but make it clever and a little too real.
           goal |-> <<"M","a","k","e"," ","f","u","n"," ","o","f"," ","m","e"," ","f","o","r"," ","b",
             "u","y","i","n","g"," ","a"," ","$","7"," ","l","a","t","t","e"," ","i","n","s",
             "t","e","a","d"," ","o","f"," ","s","a","v","i","n","g"," ","f","o","r"," ","r",
             "e","t","i","r","e","m","e","n","t",","," ","b","u","t"," ","m","a","k","e"," ",
             "i","t"," ","c","l","e","v","e","r"," ","a","n","d"," ","a"," ","l","i","t","t",
             "l","e"," ","t","o","o"," ","r","e","a","l",".">>,
           tone |-> <<"R","o","a","s","t","y">>,
           output_type |-> <<"B","u","l","l","e","t"," ","L","i","s","t">>,
           audience |-> <<"P","e","o","p","l","e"," ","w","h","o"," ","e","n","j","o","y"," ","p","a","i",
             "n"," ","a","s"," ","c","o","m","e","d","y">>]],
        [name |-> "Email Response Rage Filter",
         data |-> [
           \* Help me respond to a deeply annoying email in a professional tone while screaming internally.
           goal |-> <<"H","e","l","p"," ","m","e"," ","r","e","s","p","o","n","d"," ","t","o"," ","a",
             " ","d","e","e","p","l","y"," ","a","n","n","o","y","i","n","g"," ","e","m","a",
             "i","l"," ","i","n"," ","a"," ","p","r","o","f","e","s","s","i","o","n","a","l",
             " ","t","o","n","e"," ","w","h","i","l","e"," ","s","c","r","e","a","m","i","n",
             "g"," ","i","n","t","e","r","n","a","l","l","y",".">>,
           tone |-> <<"P","a","s","s","i","v","e"," ","a","g","g","r","e","s","s","i","v","e">>,
           output_type |-> <<"T","e","x","t">>,
           audience |-> <<"A","n","y","o","n","e"," ","w","h","o","'","s"," ","e","v","e","r"," ","r","e",
             "p","l","i","e","d"," ","a","l","l"," ","b","y"," ","a","c","c","i","d","e","n",
             "t">>]],
        [name |-> "Clean Your Damn Room Bot",
         data |-> [
           \* Write a motivational pep talk that uses tough love and light profanity to convince me to clean my disgusting room.
           goal |-> <<"W","r","i","t","e"," ","a"," ","m","o","t","i","v","a","t","i","o","n","a","l",
             " ","p","e","p"," ","t","a","l","k"," ","t","h","a","t"," ","u","s","e","s"," ",
             "t","o","u","g","h"," ","l","o","v","e"," ","a","n","d"," ","l","i","g","h","t",
             " ","p","r","o","f","a","n","i","t","y"," ","t","o"," ","c","o","n","v","i","n",
             "c","e"," ","m","e"," ","t","o"," ","c","l","e","a","n"," ","m","y"," ","d","i",
             "s","g","u","s","t","i","n","g"," ","r","o","o","m",".">>,
           tone |-> <<"A","g","g","r","e","s","s","i","v","e","l","y"," ","e","n","c","o","u","r","a",
             "g","i","n","g">>,
           output_type |-> <<"T","e","x","t">>,
           audience |-> <<"P","r","o","c","r","a","s","t","i","n","a","t","o","r","s"," ","a","n","d"," ",
             "g","o","b","l","i","n","s">>]],
        [name |-> "Startup Idea Generator (That Probably Sucks)",
         data |-> [
           \* Give me absurd startup ideas that sound real until you think about them for more than 10 seconds.
           goal |-> <<"G","i","v","e"," ","m","e"," ","a","b","s","u","r","d"," ","s","t","a","r","t",
             "u","p"," ","i","d","e","a","s"," ","t","h","a","t"," ","s","o","u","n","d"," ",
             "r","e","a","l"," ","u","n","t","i","l"," ","y","o","u"," ","t","h","i","n","k",
             " ","a","b","o","u","t"," ","t","h","e","m"," ","f","o","r"," ","m","o","r","e",
             " ","t","h","a","n"," ","1","0"," ","s","e","c","o","n","d","s",".">>,
           tone |-> <<"S","a","t","i","r","i","c","a","l">>,
           output_type |-> <<"B","u","l","l","e","t"," ","L","i","s","t">>,
           audience |-> <<"T","e","c","h"," ","b","r","o","s"," ","w","i","t","h"," ","t","o","o"," ","m",
             "u","c","h"," ","V","C"," ","m","o","n","e","y">>]],
        [name |-> "Rage Journal Prompt",
         data |-> [
           \* Give me a writing prompt to vent all my rage about people who don't use their turn signals.
           goal |-> <<"G","i","v","e"," ","m","e"," ","a"," ","w","r","i","t","i","n","g"," ","p","r",
             "o","m","p","t"," ","t","o"," ","v","e","n","t"," ","a","l","l"," ","m","y"," ",
             "r","a","g","e"," ","a","b","o","u","t"," ","p","e","o","p","l","e"," ","w","h",
             "o"," ","d","o","n","U+2019","t"," ","u","s","e"," ","t","h","e","i","r"," ","t",
             "u","r","n"," ","s","i","g","n","a","l","s",".">>,
           tone |-> <<"I","r","r","i","t","a","t","e","d">>,
           output_type |-> <<"M","a","r","k","d","o","w","n">>,
           audience |-> <<"D","r","i","v","e","r","s"," ","b","a","r","e","l","y"," ","h","o","l","d","i",
             "n","g"," ","o","n">>]],
        [name |-> "Corporate Bullshit Translator",
         data |-> [
           \* Take a vague corporate memo and rewrite it with brutal honesty, swearing allowed.
           goal |-> <<"T","a","k","e"," ","a"," ","v","a","g","u","e"," ","c","o","r","p","o","r","a",
             "t","e"," ","m","e","m","o"," ","a","n","d"," ","r","e","w","r","i","t","e"," ",
             "i","t"," ","w","i","t","h"," ","b","r","u","t","a","l"," ","h","o","n","e","s",
             "t","y",","," ","s","w","e","a","r","i","n","g"," ","a","l","l","o","w","e","d",
             ".">>,
           tone |-> <<"S","n","a","r","k","y">>,
           output_type |-> <<"T","e","x","t">>,
           audience |-> <<"E","m","p","l","o","y","e","e","s"," ","w","h","o"," ","k","n","o","w"," ","t",
             "h","e"," ","g","a","m","e">>]] >>] >>

\* Recursion-mode template (src lines 235-248), fixed text part 0: '\nYou are an AI designed to generate prompts that generate prompts.\nRecursion depth: '
RecursionText0 ==
  <<"\n","Y","o","u"," ","a","r","e"," ","a","n"," ","A","I"," ","d","e","s","i","g","n","e","d",
  " ","t","o"," ","g","e","n","e","r","a","t","e"," ","p","r","o","m","p","t","s"," ","t","h",
  "a","t"," ","g","e","n","e","r","a","t","e"," ","p","r","o","m","p","t","s",".","\n","R","e",
  "c","u","r","s","i","o","n"," ","d","e","p","t","h",":"," ">>

\*   ... then the interpolated field {depth}
\* Recursion-mode template (src lines 235-248), fixed text part 1: '\nGod Mode: '
RecursionText1 ==
  <<"\n","G","o","d"," ","M","o","d","e",":"," ">>

\*   ... then the interpolated field {'ON' if god_mode else 'OFF'}
\* Recursion-mode template (src lines 235-248), fixed text part 2: '\n\nYour task:\n- Create a prompt that instructs an AI how to help someone write better prompts.\n- The tone should be clear, structured, and meta-aware.\n- Include formatting guidance.\n- Include a bad vs good prompt example (optional).\n- End with a meta-tip for refining future prompts.\n\nRespond only with the generated prompt and a meta-tip.\n'
RecursionText2 ==
  <<"\n","\n","Y","o","u","r"," ","t","a","s","k",":","\n","-"," ","C","r","e","a","t","e"," ",
  "a"," ","p","r","o","m","p","t"," ","t","h","a","t"," ","i","n","s","t","r","u","c","t","s",
  " ","a","n"," ","A","I"," ","h","o","w"," ","t","o"," ","h","e","l","p"," ","s","o","m","e",
  "o","n","e"," ","w","r","i","t","e"," ","b","e","t","t","e","r"," ","p","r","o","m","p","t",
  "s",".","\n","-"," ","T","h","e"," ","t","o","n","e"," ","s","h","o","u","l","d"," ","b","e",
  " ","c","l","e","a","r",","," ","s","t","r","u","c","t","u","r","e","d",","," ","a","n","d",
  " ","m","e","t","a","-","a","w","a","r","e",".","\n","-"," ","I","n","c","l","u","d","e"," ",
  "f","o","r","m","a","t","t","i","n","g"," ","g","u","i","d","a","n","c","e",".","\n","-"," ",
  "I","n","c","l","u","d","e"," ","a"," ","b","a","d"," ","v","s"," ","g","o","o","d"," ","p",
  "r","o","m","p","t"," ","e","x","a","m","p","l","e"," ","(","o","p","t","i","o","n","a","l",
  ")",".","\n","-"," ","E","n","d"," ","w","i","t","h"," ","a"," ","m","e","t","a","-","t","i",
  "p"," ","f","o","r"," ","r","e","f","i","n","i","n","g"," ","f","u","t","u","r","e"," ","p",
  "r","o","m","p","t","s",".","\n","\n","R","e","s","p","o","n","d"," ","o","n","l","y"," ","w",
  "i","t","h"," ","t","h","e"," ","g","e","n","e","r","a","t","e","d"," ","p","r","o","m","p",
  "t"," ","a","n","d"," ","a"," ","m","e","t","a","-","t","i","p",".","\n">>

\* Normal-mode template (src lines 250-268), fixed text part 0: '\nYou are a professional AI prompt engineer. Your task is to turn a rough user idea into a clear, structured, and effective AI prompt.\n\nHere is the input:\n- Goal: '
NormalText0 ==
  <<"\n","Y","o","u"," ","a","r","e"," ","a"," ","p","r","o","f","e","s","s","i","o","n","a","l",
  " ","A","I"," ","p","r","o","m","p","t"," ","e","n","g","i","n","e","e","r","."," ","Y","o",
  "u","r"," ","t","a","s","k"," ","i","s"," ","t","o"," ","t","u","r","n"," ","a"," ","r","o",
  "u","g","h"," ","u","s","e","r"," ","i","d","e","a"," ","i","n","t","o"," ","a"," ","c","l",
  "e","a","r",","," ","s","t","r","u","c","t","u","r","e","d",","," ","a","n","d"," ","e","f",
  "f","e","c","t","i","v","e"," ","A","I"," ","p","r","o","m","p","t",".","\n","\n","H","e","r",
  "e"," ","i","s"," ","t","h","e"," ","i","n","p","u","t",":","\n","-"," ","G","o","a","l",":",
  " ">>

\*   ... then the interpolated field {goal}
\* Normal-mode template (src lines 250-268), fixed text part 1: '\n- Tone: '
NormalText1 ==
  <<"\n","-"," ","T","o","n","e",":"," ">>

\*   ... then the interpolated field {tone}
\* Normal-mode template (src lines 250-268), fixed text part 2: '\n- Output Type: '
NormalText2 ==
  <<"\n","-"," ","O","u","t","p","u","t"," ","T","y","p","e",":"," ">>

\*   ... then the interpolated field {output_type}
\* Normal-mode template (src lines 250-268), fixed text part 3: '\n- Audience: '
NormalText3 ==
  <<"\n","-"," ","A","u","d","i","e","n","c","e",":"," ">>

\*   ... then the interpolated field {audience}
\* Normal-mode template (src lines 250-268), fixed text part 4: '\n\nWrite a full prompt that:\n- Starts by instructing the AI what role to take\n- Clearly sets the task\n- Specifies the tone or style\n- Includes formatting guidance (if helpful)\n- Optionally includes a sample input/output pair\n- Ends with a short tip on how to customize it further\n\nRespond only with the generated prompt and tip.\n'
NormalText4 ==
  <<"\n","\n","W","r","i","t","e"," ","a"," ","f","u","l","l"," ","p","r","o","m","p","t"," ","t",
  "h","a","t",":","\n","-"," ","S","t","a","r","t","s"," ","b","y"," ","i","n","s","t","r","u",
  "c","t","i","n","g"," ","t","h","e"," ","A","I"," ","w","h","a","t"," ","r","o","l","e"," ",
  "t","o"," ","t","a","k","e","\n","-"," ","C","l","e","a","r","l","y"," ","s","e","t","s"," ",
  "t","h","e"," ","t","a","s","k","\n","-"," ","S","p","e","c","i","f","i","e","s"," ","t","h",
  "e"," ","t","o","n","e"," ","o","r"," ","s","t","y","l","e","\n","-"," ","I","n","c","l","u",
  "d","e","s"," ","f","o","r","m","a","t","t","i","n","g"," ","g","u","i","d","a","n","c","e",
  " ","(","i","f"," ","h","e","l","p","f","u","l",")","\n","-"," ","O","p","t","i","o","n","a",
  "l","l","y"," ","i","n","c","l","u","d","e","s"," ","a"," ","s","a","m","p","l","e"," ","i",
  "n","p","u","t","/","o","u","t","p","u","t"," ","p","a","i","r","\n","-"," ","E","n","d","s",
  " ","w","i","t","h"," ","a"," ","s","h","o","r","t"," ","t","i","p"," ","o","n"," ","h","o",
  "w"," ","t","o"," ","c","u","s","t","o","m","i","z","e"," ","i","t"," ","f","u","r","t","h",
  "e","r","\n","\n","R","e","s","p","o","n","d"," ","o","n","l","y"," ","w","i","t","h"," ","t",
  "h","e"," ","g","e","n","e","r","a","t","e","d"," ","p","r","o","m","p","t"," ","a","n","d",
  " ","t","i","p",".","\n">>

\* The flatten loop (src lines 168-173): templates[name] = data, a later entry of
\* the same name replacing an earlier one.
RECURSIVE FlattenEntries(_, _)
FlattenEntries(entries, acc) ==
  IF entries = << >> THEN acc
  ELSE FlattenEntries(Tail(entries), (Head(entries).name :> Head(entries).data) @@ acc)

RECURSIVE FlattenTemplates(_, _)
FlattenTemplates(cats, acc) ==
  IF cats = << >> THEN acc
  ELSE FlattenTemplates(Tail(cats), FlattenEntries(Head(cats).entries, acc))

\* The same loop's template_categories[name] = category.
RECURSIVE FlattenEntryCategories(_, _, _)
FlattenEntryCategories(entries, category, acc) ==
  IF entries = << >> THEN acc
  ELSE FlattenEntryCategories(Tail(entries), category, (Head(entries).name :> category) @@ acc)

RECURSIVE FlattenCategories(_, _)
FlattenCategories(cats, acc) ==
  IF cats = << >> THEN acc
  ELSE FlattenCategories(Tail(cats),
         FlattenEntryCategories(Head(cats).entries, Head(cats).category, acc))

\* An empty dict.
EmptyDict == [k \in {} |-> << >>]

templates == FlattenTemplates(templates_by_category, EmptyDict)

template_categories == FlattenCategories(templates_by_category, EmptyDict)

\* templates.get(selected_template, {}) and prefill (src lines 203-204): the preset's
\* data, or an empty dict for a name the lookup does not hold.
Prefill(selected) ==
  IF selected \in DOMAIN templates THEN templates[selected] ELSE EmptyDict

\* Mutant of Get: the output_type key is misspelt, so its default is always taken.
Get_WrongKey(d, field, default) ==
  IF field # "output_type" /\ field \in DOMAIN d THEN d[field] ELSE default

\* prefill.get(field, default)
Get(d, field, default) == IF field \in DOMAIN d THEN d[field] ELSE default

DefaultTone == valid_tones[1]
DefaultOutputType == output_types[1]

\* The values the form's four prefilled widgets are built with (src lines 209-216):
\* value=prefill.get(...) for the two text fields, index=list.index(prefill.get(...))
\* for the two selectboxes.  tone_index or output_index 0 is the ValueError of .index.
FormDefaults(selected) ==
  LET p == Prefill(selected)
      ti == Index(valid_tones, Get(p, "tone", DefaultTone))
      oi == Index(output_types, Get(p, "output_type", DefaultOutputType))
  IN [goal |-> Get(p, "goal", << >>),
      tone_index |-> ti,
      tone |-> IF ti = 0 THEN << >> ELSE valid_tones[ti],
      output_index |-> oi,
      output_type |-> IF oi = 0 THEN << >> ELSE output_types[oi],
      audience |-> Get(p, "audience", << >>)]

\* ---------------------------------------------------- the prompt assembler

\* Mutant of UseRecursionTemplate: the goal is counted without lower().
UseRecursionTemplate_NoLower(goal) ==
  /\ Contains(goal, Keyword)
  /\ count(goal, Keyword) >= RecursionThreshold

\* The condition of src line 225.
UseRecursionTemplate(goal) ==
  \E lowered \in {lower(goal)} :
    /\ Contains(lowered, Keyword)
    /\ count(lowered, Keyword) >= RecursionThreshold

\* The f-string of src lines 235-248.
RecursionTemplate(depth, god_mode) ==
  RecursionText0 \o IntToStr(depth) \o RecursionText1
    \o (IF god_mode THEN <<"O","N">> ELSE <<"O","F","F">>) \o RecursionText2

\* Mutant of NormalTemplate: tone and output_type interpolated in each other's place.
NormalTemplate_Swapped(goal, tone, output_type, audience) ==
  NormalText0 \o goal \o NormalText1 \o output_type \o NormalText2 \o tone
    \o NormalText3 \o audience \o NormalText4

\* The f-string of src lines 250-268.
NormalTemplate(goal, tone, output_type, audience) ==
  NormalText0 \o goal \o NormalText1 \o tone \o NormalText2 \o output_type
    \o NormalText3 \o audience \o NormalText4

\* Which branch of the if/else of src lines 225-268 a goal takes.
Mode(goal) == IF UseRecursionTemplate(goal) THEN "recursion" ELSE "normal"

\* Mutant of PromptTemplate: the normal branch echoes the depth too.
PromptTemplate_FlagsInNormal(m, w) ==
  IF m = "recursion"
  THEN RecursionTemplate(w.depth, w.god_mode)
  ELSE NormalTemplate(w.goal, w.tone, w.output_type, w.audience) \o IntToStr(w.depth)

\* prompt_template as the branch m of src lines 225-268 leaves it.
PromptTemplate(m, w) ==
  IF m = "recursion"
  THEN RecursionTemplate(w.depth, w.god_mode)
  ELSE NormalTemplate(w.goal, w.tone, w.output_type, w.audience)

\* What the recursion branch shows before it builds the prompt (src lines 226-233).
Banners(m, w) ==
  IF m = "recursion"
  THEN {"inception"}
         \cup (IF w.depth >= WarningDepth THEN {"depth_warning"} ELSE {})
         \cup (IF w.god_mode THEN {"god_mode"} ELSE {})
  ELSE {}

NaValues ==
  { << >>,
    <<"#","N","/","A">>,
    <<"#","N","/","A"," ","N","/","A">>,
    <<"#","N","A">>,
    <<"-","1",".","#","I","N","D">>,
    <<"-","1",".","#","Q","N","A","N">>,
    <<"-","N","a","N">>,
    <<"-","n","a","n">>,
    <<"1",".","#","I","N","D">>,
    <<"1",".","#","Q","N","A","N">>,
    <<"<","N","A",">">>,
    <<"N","/","A">>,
    <<"N","A">>,
    <<"N","U","L","L">>,
    <<"N","a","N">>,
    <<"n","/","a">>,
    <<"n","a","n">>,
    <<"n","u","l","l">> }
DateText == <<"2","0","2","5","-","0","1","-","0","1">>
FilePrefix == <<"p","r","o","m","p","t","_">>
FileSuffix == <<".","t","x","t">>
\* ------------------------------------------------------- files and history

\* datetime.now().strftime(...) of an instant t seconds into one fixed day:
\* '%Y-%m-%d %H:%M:%S' with (dsep, tsep) = (" ", ":"), '%Y-%m-%d_%H-%M-%S' with ("_", "-").
Strftime(t, dsep, tsep) ==
  DateText \o <<dsep>> \o <<"0","0">> \o <<tsep>> \o <<"0","0">> \o <<tsep>>
    \o (IF t < 10 THEN <<"0">> ELSE << >>) \o IntToStr(t)

\* filename of src line 283.
Filename(t) == FilePrefix \o Strftime(t, "_", "-") \o FileSuffix

\* new_row of src lines 288-295.
NewRow(w, result, t) ==
  [timestamp |-> Strftime(t, " ", ":"),
   goal |-> w.goal,
   tone |-> w.tone,
   output_type |-> w.output_type,
   audience |-> w.audience,
   prompt |-> result]

Columns == {"timestamp", "goal", "tone", "output_type", "audience", "prompt"}

\* A DataFrame cell: a string, or NaN.
Str(text) == [nan |-> FALSE, text |-> text]
NaN == [nan |-> TRUE, text |-> << >>]

\* pd.DataFrame([new_row]): every value is the Python string it was given.
DataFrame(rows) == [i \in 1..Len(rows) |-> [c \in Columns |-> Str(rows[i][c])]]

\* pd.read_csv(history_path) with its defaults (keep_default_na=True): a field whose
\* text is one of the default NA strings is read as NaN, any other text as itself.
\* (None of the inputs used here makes a whole column numeric or boolean, the other
\* case in which read_csv changes a value.)
read_csv(file_rows) ==
  [i \in 1..Len(file_rows) |->
     [c \in Columns |-> IF file_rows[i][c] \in NaValues THEN NaN ELSE Str(file_rows[i][c])]]

\* df.to_csv(history_path, index=False) with its defaults (na_rep=''): NaN is written
\* as the empty field.
to_csv(df) ==
  [i \in 1..Len(df) |-> [c \in Columns |-> IF df[i][c].nan THEN << >> ELSE df[i][c].text]]

\* pd.concat([df, pd.DataFrame([new_row])], ignore_index=True)
concat(df, more) == df \o more

\* The history append of src lines 298-303, faults aside: the file after it.
HistoryAppend(hf, new_row) ==
  LET df == IF hf.exists
            THEN concat(read_csv(hf.rows), DataFrame(<<new_row>>))
            ELSE DataFrame(<<new_row>>)
  IN [exists |-> TRUE, rows |-> to_csv(df)]

NoHistory == [exists |-> FALSE, rows |-> << >>]

\* ------------------------------------------------------ the submission run

\* Mutant of ExceptHandler: the handler records the failed attempt in the history file.
ExceptHandler_LogsRow(site, result_shown, hf, tf) ==
  [raised |-> site, error |-> "call", result_shown |-> result_shown,
   history_file |-> [exists |-> TRUE,
                     rows |-> hf.rows \o <<[c \in Columns |-> <<"e","r","r","o","r">>]>>],
   txt_files |-> tf, appended |-> << >>]

\* Mutant of ExceptHandler: the exception is swallowed without a message.
ExceptHandler_Silent(site, result_shown, hf, tf) ==
  [raised |-> site, error |-> "none", result_shown |-> result_shown,
   history_file |-> hf, txt_files |-> tf, appended |-> << >>]

\* The except clause of src lines 305-306: st.error with the exception's text.  The
\* statements of the try block that ran before the raise keep their effects.
ExceptHandler(site, result_shown, hf, tf) ==
  [raised |-> site, error |-> "call", result_shown |-> result_shown,
   history_file |-> hf, txt_files |-> tf, appended |-> << >>]

\* The try block ran to its end.
Completed(hf, tf, appended) ==
  [raised |-> "none", error |-> "none", result_shown |-> TRUE,
   history_file |-> hf, txt_files |-> tf, appended |-> appended]

\* Mutant of TryBlock: the history append is not guarded by IS_DEV.
TryBlock_NoDevCheck(w, env, dev, hf, tf) ==
  LET tf1 == IF w.save_txt THEN (Filename(env.t_file) :> env.result) @@ tf ELSE tf
      row == NewRow(w, env.result, env.t_row)
  IN IF env.fault = "generate" THEN ExceptHandler("generate", FALSE, hf, tf)
     ELSE IF env.fault = "text" THEN ExceptHandler("text", FALSE, hf, tf)
     ELSE IF w.save_txt /\ env.fault = "txt_write" THEN ExceptHandler("txt_write", TRUE, hf, tf)
     ELSE IF hf.exists /\ env.fault = "hist_read" THEN ExceptHandler("hist_read", TRUE, hf, tf1)
     ELSE IF env.fault = "hist_write" THEN ExceptHandler("hist_write", TRUE, hf, tf1)
     ELSE Completed(HistoryAppend(hf, row), tf1, <<row>>)

\* The try block of src lines 270-303 under env: the statement named by env.fault
\* raises if it is executed (a file fault is a failure to open the file, which leaves
\* the file as it was); env.result is the text the model returns; env.t_file and
\* env.t_row are the two readings of datetime.now().
TryBlock(w, env, dev, hf, tf) ==
  LET tf1 == IF w.save_txt THEN (Filename(env.t_file) :> env.result) @@ tf ELSE tf
      row == NewRow(w, env.result, env.t_row)
  IN IF env.fault = "generate" THEN ExceptHandler("generate", FALSE, hf, tf)
     ELSE IF env.fault = "text" THEN ExceptHandler("text", FALSE, hf, tf)
     ELSE IF w.save_txt /\ env.fault = "txt_write" THEN ExceptHandler("txt_write", TRUE, hf, tf)
     ELSE IF ~dev THEN Completed(hf, tf1, << >>)
     ELSE IF hf.exists /\ env.fault = "hist_read" THEN ExceptHandler("hist_read", TRUE, hf, tf1)
     ELSE IF env.fault = "hist_write" THEN ExceptHandler("hist_write", TRUE, hf, tf1)
     ELSE Completed(HistoryAppend(hf, row), tf1, <<row>>)

\* What the `if submitted:` block leaves, given the branch m it took and the outcome t
\* of its try block.
SubmissionRecord(m, t, w, env) ==
  [mode |-> m,
   banners |-> Banners(m, w),
   prompt_template |-> PromptTemplate(m, w),
   calls |-> 1,
   raised |-> t.raised,
   error |-> t.error,
   result_shown |-> t.result_shown,
   shown |-> IF t.result_shown THEN html_escape(env.result) ELSE << >>,
   history_file |-> t.history_file,
   txt_files |-> t.txt_files,
   appended |-> t.appended]

\* The whole `if submitted:` block (src lines 223-306).
Submission(w, env, dev, hf, tf) ==
  SubmissionRecord(Mode(w.goal), TryBlock(w, env, dev, hf, tf), w, env)

\* The block skipped: submitted is False.
NoSubmission(hf, tf) ==
  [mode |-> "none", banners |-> {}, prompt_template |-> << >>, calls |-> 0,
   raised |-> "none", error |-> "none", result_shown |-> FALSE, shown |-> << >>,
   history_file |-> hf, txt_files |-> tf, appended |-> << >>]

\* Mutant of Halts: st.stop() is missing, the run goes on after the error message.
Halts_Never(key_present) == FALSE

\* The credential check of src lines 25-28: st.stop() when the secret is missing.
Halts(key_present) == ~key_present

\* Mutant of SelectedAfter: the button stores the loop's category, not the preset name.
SelectedAfter_Category(click, selected) ==
  IF click = "" THEN selected ELSE template_categories[click]

\* session_state.selected_template after the sidebar (src lines 190-199): the name the
\* clicked button stores, or the stored one when no button was clicked ("" is no click).
SelectedAfter(click, selected) == IF click = "" THEN selected ELSE click

\* Widget values of a run that submits nothing: the defaults the form was built with.
DefaultWidgets(fd) ==
  [goal |-> fd.goal, tone |-> fd.tone, output_type |-> fd.output_type,
   audience |-> fd.audience, save_txt |-> FALSE, depth |-> DefaultDepth, god_mode |-> FALSE]

NoForm ==
  [goal |-> << >>, tone_index |-> 0, tone |-> << >>, output_index |-> 0,
   output_type |-> << >>, audience |-> << >>]

\* ------------------------------------------------------------------ state

VARIABLES
  GOOGLE_API_KEY,     \* whether st.secrets holds a non-empty GOOGLE_API_KEY
  IS_DEV,             \* APP_MODE == "dev"
  selected_template,  \* st.session_state.selected_template, "" when absent
  history_file,       \* prompt_history.csv: whether it exists, and its data rows
  txt_files,          \* the prompt_<timestamp>.txt files: filename -> content
  rendered,           \* how far the last script run got: "none" (no run yet),
                      \* "halted", "crashed", "form"
  configured,         \* the last run reached genai.configure / GenerativeModel
  form,               \* the values the last run built the form's widgets with
  submitted,          \* st.form_submit_button's value in the last run
  widgets,            \* the values the form's widgets returned in the last run
  mode,               \* "recursion", "normal", or "none" when nothing was submitted
  banners,            \* what the recursion branch displayed
  prompt_template,    \* the text handed to model.generate_content
  calls,              \* calls of model.generate_content in the last run
  error,              \* st.error shown: "none", "credential" or "call"
  result_shown,       \* the result block and download button were displayed
  shown,              \* the escaped text displayed
  raised,             \* the statement that raised in the last run, or "none"
  uncaught,           \* the last run ended in an exception no handler caught
  log,                \* history variable: the new_row of every completed append
  twin                \* history variable: the same submission with other flags

vars ==
  <<GOOGLE_API_KEY, IS_DEV, selected_template, history_file, txt_files, rendered,
    configured, form, submitted, widgets, mode, banners, prompt_template, calls,
    error, result_shown, shown, raised, uncaught, log, twin>>

NoTwin == [submitted |-> FALSE]

\* What the twin run leaves: the outcome of the `if submitted:` block for widget
\* values w2 from the same files, under the same env.
TwinOf(s2) ==
  [submitted |-> TRUE, mode |-> s2.mode, prompt_template |-> s2.prompt_template,
   calls |-> s2.calls, raised |-> s2.raised, error |-> s2.error,
   history_file |-> s2.history_file, txt_files |-> s2.txt_files, appended |-> s2.appended]

InitWith(keys, devs) ==
  /\ GOOGLE_API_KEY \in keys
  /\ IS_DEV \in devs
  /\ selected_template = ""
  /\ history_file = NoHistory
  /\ txt_files = EmptyDict
  /\ rendered = "none"
  /\ configured = FALSE
  /\ form = NoForm
  /\ submitted = FALSE
  /\ widgets = DefaultWidgets(NoForm)
  /\ mode = "none"
  /\ banners = {}
  /\ prompt_template = << >>
  /\ calls = 0
  /\ error = "none"
  /\ result_shown = FALSE
  /\ shown = << >>
  /\ raised = "none"
  /\ uncaught = FALSE
  /\ log = << >>
  /\ twin = NoTwin

\* The outputs of a run that displays nothing below the given point.
Stopped(how, conf, err, site, unc) ==
  /\ rendered' = how
  /\ configured' = conf
  /\ form' = NoForm
  /\ submitted' = FALSE
  /\ widgets' = DefaultWidgets(NoForm)
  /\ mode' = "none"
  /\ banners' = {}
  /\ prompt_template' = << >>
  /\ calls' = 0
  /\ error' = err
  /\ result_shown' = FALSE
  /\ shown' = << >>
  /\ raised' = site
  /\ uncaught' = unc
  /\ twin' = NoTwin
  /\ UNCHANGED <<selected_template, history_file, txt_files, log>>

\* One run of the script (src lines 12-338).  click is the sidebar button pressed ("" for
\* none), submit whether the form was submitted with widget values w, env the run's
\* environment, w2 the twin's widget values when twinned.
ScriptRun(click, submit, w, env, twinned, w2) ==
  /\ UNCHANGED <<GOOGLE_API_KEY, IS_DEV>>
  /\ IF Halts(GOOGLE_API_KEY)
     THEN Stopped("halted", FALSE, "credential", "none", FALSE)
     ELSE IF IS_DEV /\ history_file.exists /\ env.fault = "startup_read"
     THEN Stopped("crashed", TRUE, "none", "startup_read", TRUE)
     ELSE
       \E sel \in {SelectedAfter(click, selected_template)} :
       \E fd \in {FormDefaults(sel)} :
          IF fd.tone_index = 0 \/ fd.output_index = 0
          THEN Stopped("crashed", TRUE, "none", "index", TRUE)
          ELSE
            \E s \in {IF submit THEN Submission(w, env, IS_DEV, history_file, txt_files)
                       ELSE NoSubmission(history_file, txt_files)} :
              LET crash == IS_DEV /\ s.history_file.exists /\ env.fault = "display_read"
              IN /\ selected_template' = sel
                 /\ rendered' = "form"
                 /\ configured' = TRUE
                 /\ form' = fd
                 /\ submitted' = submit
                 /\ widgets' = IF submit THEN w ELSE DefaultWidgets(fd)
                 /\ mode' = s.mode
                 /\ banners' = s.banners
                 /\ prompt_template' = s.prompt_template
                 /\ calls' = s.calls
                 /\ error' = s.error
                 /\ result_shown' = s.result_shown
                 /\ shown' = s.shown
                 /\ raised' = IF crash THEN "display_read" ELSE s.raised
                 /\ uncaught' = crash
                 /\ history_file' = s.history_file
                 /\ txt_files' = s.txt_files
                 /\ log' = log \o s.appended
                 /\ twin' = IF submit /\ twinned
                            THEN TwinOf(Submission(w2, env, IS_DEV, history_file, txt_files))
                            ELSE NoTwin
\* 'prompt'
TokenPrompt == <<"p","r","o","m","p","t">>
\* 'Prompt '
TokenCapital == <<"P","r","o","m","p","t"," ">>
\* 'PROMP'
TokenUpperHead == <<"P","R","O","M","P">>
\* 'T'
TokenUpperTail == <<"T">>
\* 'promptprompt'
TokenDouble == <<"p","r","o","m","p","t","p","r","o","m","p","t">>
\* The goal of the spec's example: three occurrences of the keyword.
RecursionGoal == <<"i","m","p","r","o","v","e"," ","m","y"," ","p","r","o","m","p","t"," ","p","r","o","m","p",
  "t"," ","p","r","o","m","p","t">>
\* 'Summarize this prompt'
PlainGoal == <<"S","u","m","m","a","r","i","z","e"," ","t","h","i","s"," ","p","r","o","m","p","t">>
\* A goal that is also an output format label.
TextGoal == <<"T","e","x","t">>
\* An audience a user types for the optional field; one of read_csv's NA strings.
NaAudience == <<"N","/","A">>
\* 'My team'
TeamAudience == <<"M","y"," ","t","e","a","m">>
\* A text the model returns; it holds characters html.escape rewrites.
Result1 == <<"A","c","t"," ","a","s"," ","<","b",">","a"," ","c","o","a","c","h","<","/","b",">"," ","&",
  " ","s","a","y"," ","\"","h","i","\"">>
\* ---------------------------------------------------------------- actions

\* The statements a run's environment can make raise.
Faults ==
  {"none", "generate", "text", "txt_write", "hist_read", "hist_write",
   "startup_read", "display_read"}

\* The seconds datetime.now() can read.
Instants == {0, 1}

Results == {Result1}

\* The environments of a run: the second reading of the clock is not before the first.
Envs(faults, instants) ==
  {e \in [fault : faults, result : Results, t_file : instants, t_row : instants] :
     e.t_file <= e.t_row}

\* The faults of a run that submits nothing: the reads outside the try block.
LoadFaults == {"none", "startup_read", "display_read"}

\* The flags of a submission, as a record.
FlagsOf(w) == [depth |-> w.depth, god_mode |-> w.god_mode]

WithFlags(w, f) == [w EXCEPT !.depth = f.depth, !.god_mode = f.god_mode]

\* The page is loaded or refreshed: a run with no button pressed.
PageLoad(envs) ==
  \E env \in envs :
    ScriptRun("", FALSE, DefaultWidgets(NoForm), env, FALSE, DefaultWidgets(NoForm))

\* A preset's sidebar button is pressed (src lines 197-199).
ClickPreset(names, envs) ==
  /\ rendered = "form"
  /\ \E name \in names, env \in envs :
       ScriptRun(name, FALSE, DefaultWidgets(NoForm), env, FALSE, DefaultWidgets(NoForm))

\* Surprise Me is pressed (src lines 190-191): random.choice over the flattened names.
SurpriseMe(envs) ==
  /\ rendered = "form"
  /\ \E name \in DOMAIN templates, env \in envs :
       ScriptRun(name, FALSE, DefaultWidgets(NoForm), env, FALSE, DefaultWidgets(NoForm))

\* The form is submitted with widget values w.  With twin_flags not empty, the run is
\* twinned with the same submission under each of those flags.
Submit(ws, envs, twin_flags) ==
  /\ rendered = "form"
  /\ Len(history_file.rows) < MaxHistory
  /\ \E w \in ws, env \in envs :
       \E f \in (IF twin_flags = {} THEN {FlagsOf(w)} ELSE twin_flags) :
         ScriptRun("", TRUE, w, env, twin_flags # {}, WithFlags(w, f))

\* The first submission after a page load.  A run reads nothing of the run before it
\* but the session's selection and the files, which a page load leaves alone, so the
\* specifications with many inputs submit only from a freshly loaded page.
SubmitFresh(ws, envs, twin_flags) ==
  /\ ~submitted
  /\ Submit(ws, envs, twin_flags)

\* ---------------------------------------------------------- input sets

\* What a user may leave or type in the form the page shows (defaults fd).
Typed(goals, tones, outs, audiences, saves, depths, gods) ==
  [goal : goals, tone : tones, output_type : outs, audience : audiences,
   save_txt : saves, depth : depths, god_mode : gods]

Range(s) == {s[i] : i \in 1..Len(s)}

AllFlags == [depth : MinDepth..MaxDepth, god_mode : BOOLEAN]

\* Spec: the user keeps the prefilled goal, tone and format, and may type an audience.
MainWidgets ==
  Typed({form.goal}, {form.tone}, {form.output_type}, {form.audience, NaAudience},
        BOOLEAN, {DefaultDepth}, {FALSE})

MainPresets == {"Cold Outreach Message"}

\* FlagSpec: a goal of each mode, at the least, the warning and the greatest depth, god
\* mode on and off; the twin takes every depth and god-mode setting.
FlagWidgets ==
  Typed({PlainGoal, RecursionGoal}, {form.tone}, {form.output_type}, {form.audience},
        BOOLEAN, {MinDepth, WarningDepth, MaxDepth}, BOOLEAN)

\* The faults of the try block.
TryFaults == {"none", "generate", "text", "txt_write", "hist_read", "hist_write"}

\* AssembleSpec: goals built from at most MaxTokens tokens.
Tokens == {TokenPrompt, TokenCapital, TokenUpperHead, TokenUpperTail, TokenDouble}

RECURSIVE GoalsOfLength(_)
GoalsOfLength(n) ==
  IF n = 0 THEN {<< >>}
  ELSE {g \o t : g \in GoalsOfLength(n - 1), t \in Tokens}

TokenGoals == UNION {GoalsOfLength(n) : n \in 0..MaxTokens}

AssembleWidgets ==
  Typed(TokenGoals, {DefaultTone}, {DefaultOutputType}, {<< >>, TeamAudience},
        {FALSE}, {MinDepth, MaxDepth}, BOOLEAN)
  \cup
  Typed({PlainGoal, TextGoal, RecursionGoal}, Range(valid_tones), Range(output_types),
        {<< >>, TeamAudience}, {FALSE}, {DefaultDepth}, {FALSE})

\* CatalogSpec: the form is submitted as prefilled, or with a typed audience.
CatalogWidgets ==
  Typed({form.goal}, {form.tone}, {form.output_type}, {form.audience, TeamAudience},
        BOOLEAN, {DefaultDepth}, {FALSE})

\* --------------------------------------------------------- specifications

\* Spec: credential present or missing, developer mode on or off, every fault.
Init == InitWith(BOOLEAN, BOOLEAN)

Next ==
  \/ PageLoad(Envs(LoadFaults, {0}))
  \/ ClickPreset(MainPresets, Envs({"none"}, {0}))
  \/ Submit(MainWidgets, Envs(Faults, {0}), {})

Spec == Init /\ [][Next]_vars

\* AssembleSpec: the assembler on typed goals and on every (tone, output_type) pair.
AssembleInit == InitWith({TRUE}, {FALSE})

AssembleNext ==
  \/ PageLoad(Envs({"none"}, {0}))
  \/ SubmitFresh(AssembleWidgets, Envs({"none"}, {0}), {})

AssembleSpec == AssembleInit /\ [][AssembleNext]_vars

\* FlagSpec: a submission and its twin, which differs in depth and god mode only.
FlagInit == InitWith({TRUE}, BOOLEAN)

FlagNext ==
  \/ PageLoad(Envs({"none"}, {0}))
  \/ SubmitFresh(FlagWidgets, Envs(TryFaults, {0}), AllFlags)

FlagSpec == FlagInit /\ [][FlagNext]_vars

\* CatalogSpec: every preset button and Surprise Me.
CatalogInit == InitWith({TRUE}, {FALSE})

CatalogNext ==
  \/ PageLoad(Envs({"none"}, {0}))
  \/ ClickPreset(DOMAIN templates, Envs({"none"}, {0}))
  \/ SurpriseMe(Envs({"none"}, {0}))
  \/ Submit(CatalogWidgets, Envs({"none"}, Instants), {})

CatalogSpec == CatalogInit /\ [][CatalogNext]_vars

\* ----------------------------------------------------------------- claims

\* The number of places where sub occurs in s, overlapping occurrences included.
Occurrences(s, sub) == Cardinality({i \in 1..(Len(s) + 1) : StartsAt(s, sub, i)})

\* '- Goal: '
LabelGoal ==
  <<"-"," ","G","o","a","l",":"," ">>

\* '- Tone: '
LabelTone ==
  <<"-"," ","T","o","n","e",":"," ">>

\* '- Output Type: '
LabelOutputType ==
  <<"-"," ","O","u","t","p","u","t"," ","T","y","p","e",":"," ">>

\* '- Audience: '
LabelAudience ==
  <<"-"," ","A","u","d","i","e","n","c","e",":"," ">>

\* 'Here is the input:\n'
InputHeading ==
  <<"H","e","r","e"," ","i","s"," ","t","h","e"," ","i","n","p","u","t",":","\n">>

\* '\n\nWrite a full prompt that:\n'
AfterInput ==
  <<"\n","\n","W","r","i","t","e"," ","a"," ","f","u","l","l"," ","p","r","o","m","p","t"," ","t","h",
  "a","t",":","\n">>

\* 'Recursion depth: '
DepthLine ==
  <<"R","e","c","u","r","s","i","o","n"," ","d","e","p","t","h",":"," ">>

\* 'God Mode: '
GodModeLine ==
  <<"G","o","d"," ","M","o","d","e",":"," ">>

\* 'Craft a short, attention-grabbing message to reach out to a new commercial real estate prospect in Tucson, AZ.'
ColdOutreachGoal ==
  <<"C","r","a","f","t"," ","a"," ","s","h","o","r","t",","," ","a","t","t","e","n","t","i","o",
  "n","-","g","r","a","b","b","i","n","g"," ","m","e","s","s","a","g","e"," ","t","o"," ","r",
  "e","a","c","h"," ","o","u","t"," ","t","o"," ","a"," ","n","e","w"," ","c","o","m","m","e",
  "r","c","i","a","l"," ","r","e","a","l"," ","e","s","t","a","t","e"," ","p","r","o","s","p",
  "e","c","t"," ","i","n"," ","T","u","c","s","o","n",","," ","A","Z",".">>

\* 'Professional'
ColdOutreachTone ==
  <<"P","r","o","f","e","s","s","i","o","n","a","l">>

\* 'Text'
ColdOutreachOutputType ==
  <<"T","e","x","t">>

\* 'Commercial property owners'
ColdOutreachAudience ==
  <<"C","o","m","m","e","r","c","i","a","l"," ","p","r","o","p","e","r","t","y"," ","o","w","n",
  "e","r","s">>

\* 'Clear and helpful'
ClearAndHelpful ==
  <<"C","l","e","a","r"," ","a","n","d"," ","h","e","l","p","f","u","l">>

\* 'Text'
TextFormat ==
  <<"T","e","x","t">>

\* 'Act as &lt;b&gt;a coach&lt;/b&gt; &amp; say &quot;hi&quot;'
EscapedResult1 ==
  <<"A","c","t"," ","a","s"," ","&","l","t",";","b","&","g","t",";","a"," ","c","o","a","c","h",
  "&","l","t",";","/","b","&","g","t",";"," ","&","a","m","p",";"," ","s","a","y"," ","&","q",
  "u","o","t",";","h","i","&","q","u","o","t",";">>

\* C1: on every form submission the recursion-mode template is chosen if and only if
\* the lower-cased goal holds the keyword "prompt" three or more times; with fewer the
\* normal template is chosen, whatever the other fields are.  (Two occurrences of
\* "prompt" cannot overlap, so the places where it occurs are counted.)
C1_RecursionIffThreeKeywords ==
  submitted =>
    \E n \in {Occurrences(lower(widgets.goal), Keyword)} :
      /\ mode = (IF n >= 3 THEN "recursion" ELSE "normal")
      /\ StartsAt(prompt_template, RecursionText0, 1) <=> n >= 3
      /\ StartsAt(prompt_template, NormalText0, 1) <=> n < 3

\* C1 witness: a goal of mixed case with exactly three occurrences took the recursion
\* template.
C1_Witness ==
  /\ submitted
  /\ mode = "recursion"
  /\ lower(widgets.goal) # widgets.goal
  /\ Occurrences(widgets.goal, Keyword) < 3
  /\ Occurrences(lower(widgets.goal), Keyword) = 3

\* The block of labelled lines the normal template holds for widget values w.
LabelledBlock(w) ==
  LabelGoal \o w.goal \o <<"\n">> \o LabelTone \o w.tone \o <<"\n">>
    \o LabelOutputType \o w.output_type \o <<"\n">> \o LabelAudience \o w.audience

\* C4 as stated: the assembled prompt holds the value of each of goal, tone,
\* output_type and audience exactly once.
C4_EachValueExactlyOnce ==
  submitted =>
    /\ Occurrences(prompt_template, widgets.goal) = 1
    /\ Occurrences(prompt_template, widgets.tone) = 1
    /\ Occurrences(prompt_template, widgets.output_type) = 1
    /\ Occurrences(prompt_template, widgets.audience) = 1

\* C4 amended: in normal mode the prompt holds exactly once, between the lines "Here is
\* the input:" and "Write a full prompt that:", the four lines "- Goal: ", "- Tone: ",
\* "- Output Type: " and "- Audience: " each followed by its field's value; in
\* recursion mode it holds none of the four labels.
C4_LabelledBlockOnce ==
  submitted =>
    IF mode = "normal"
    THEN /\ Occurrences(prompt_template, LabelledBlock(widgets)) = 1
         /\ Occurrences(prompt_template,
                        InputHeading \o LabelledBlock(widgets) \o AfterInput) = 1
    ELSE /\ Occurrences(prompt_template, LabelGoal) = 0
         /\ Occurrences(prompt_template, LabelTone) = 0
         /\ Occurrences(prompt_template, LabelOutputType) = 0
         /\ Occurrences(prompt_template, LabelAudience) = 0

\* C4 witness: a normal-mode prompt in which the value "Text" is both the goal and the
\* output format, so that it occurs twice.
C4_Witness ==
  /\ submitted
  /\ mode = "normal"
  /\ widgets.goal = TextFormat
  /\ widgets.output_type = TextFormat
  /\ widgets.tone # DefaultTone
  /\ Occurrences(prompt_template, TextFormat) = 2

\* The statements of the model call, and the file statements of the try block.
CallSites == {"generate", "text"}
TryFileSites == {"txt_write", "hist_read", "hist_write"}
OutsideFileSites == {"startup_read", "display_read"}

\* C2: when the model call fails during a submission (generate_content raises, or
\* reading response.text raises), the error message is shown, no result is displayed,
\* and the run leaves the history file and the generated-text files exactly as they
\* were, in developer mode and outside it.
C2_CallFailureChangesNothing ==
  [][(submitted' /\ raised' \in CallSites) =>
       /\ error' = "call"
       /\ ~result_shown'
       /\ shown' = << >>
       /\ calls' = 1
       /\ history_file' = history_file
       /\ txt_files' = txt_files
       /\ log' = log]_vars

\* C2 witness: in developer mode, with a history file present and the save box
\* checked, a submission's model call failed.
C2_Witness ==
  /\ IS_DEV
  /\ history_file.exists
  /\ submitted
  /\ widgets.save_txt
  /\ raised \in CallSites
  /\ error = "call"

\* C3 as stated: in developer mode the history file holds exactly the rows of the
\* completed submissions, in submission order, every earlier row as it was appended.
C3_AppendOnly == IS_DEV => history_file.rows = log

\* C6 as stated: a file failure during a submission is not handled: it ends the run
\* as an uncaught exception and the error message of the model call is not shown.
C6_FileFaultUncaught ==
  (submitted /\ raised \in TryFileSites \cup OutsideFileSites) =>
    (uncaught /\ error = "none")

\* C6 amended: a failure to write the generated-text file or to read or write the
\* history file inside the submission's try block is caught by the handler of the
\* model call and shown through the same error message, after the result was
\* displayed; only the history reads outside the try block (at startup and for the
\* history view) end the run uncaught, with no error message.
C6_TryFileFaultCaught ==
  /\ raised \in TryFileSites =>
       (submitted /\ ~uncaught /\ error = "call" /\ result_shown /\ calls = 1)
  /\ raised \in OutsideFileSites => (IS_DEV /\ uncaught /\ error = "none")
  /\ uncaught => raised \in OutsideFileSites

\* C6 witness: the history write failed after the escaped result was displayed and the
\* generated-text file written, and the failure was shown as the model call's error.
C6_Witness ==
  /\ submitted
  /\ raised = "hist_write"
  /\ error = "call"
  /\ widgets.save_txt
  /\ DOMAIN txt_files # {}
  /\ result_shown
  /\ shown = EscapedResult1

\* C7: without the credential every run halts at the credential check: the model is
\* never configured or called, no submission is processed, no generated-text file is
\* written and no history row is appended.
C7_NoCredentialNothingServed ==
  ~GOOGLE_API_KEY =>
    /\ rendered \in {"none", "halted"}
    /\ rendered = "halted" => error = "credential"
    /\ ~configured
    /\ calls = 0
    /\ ~submitted
    /\ mode = "none"
    /\ prompt_template = << >>
    /\ ~result_shown
    /\ selected_template = ""
    /\ history_file = NoHistory
    /\ txt_files = EmptyDict
    /\ log = << >>

\* C7 witness: a run without the credential halted with the credential error.
C7_Witness ==
  /\ ~GOOGLE_API_KEY
  /\ rendered = "halted"
  /\ error = "credential"

\* C9: outside developer mode no run creates or changes the history file, and a
\* generated-text file is written only by a submission with the save box checked
\* whose model call succeeded and which ended without an error.
C9_HistoryOnlyInDevMode ==
  [][~IS_DEV =>
       /\ history_file = NoHistory
       /\ history_file' = NoHistory
       /\ log' = << >>
       /\ txt_files' # txt_files =>
            (submitted' /\ widgets'.save_txt /\ result_shown' /\ error' = "none"
               /\ raised' = "none")]_vars

\* C9 witness: outside developer mode a submission saved a generated-text file and a
\* later one failed, and there is no history file.
C9_Witness ==
  /\ ~IS_DEV
  /\ submitted
  /\ error = "call"
  /\ DOMAIN txt_files # {}
  /\ ~history_file.exists

\* The text p without its line that starts with label (the line's newline included);
\* p itself when no line, or more than one, starts with label.
WithoutLine(p, label) ==
  IF Occurrences(p, <<"\n">> \o label) # 1 THEN p
  ELSE LET at == Min(MatchesFrom(p, <<"\n">> \o label, 1))
           end == Min(MatchesFrom(p, <<"\n">>, at + 1) \cup {Len(p) + 1})
       IN SubSeq(p, 1, at) \o SubSeq(p, end + 1, Len(p))

WithoutFlagLines(p) == WithoutLine(WithoutLine(p, DepthLine), GodModeLine)

\* C8: a submission and its twin, which differs from it in recursion depth and god mode
\* only, take the same template, make the same number of model calls, show the same
\* error, and leave the same history file and generated-text files; in normal mode
\* the two prompts are equal, in recursion mode they are equal outside the lines
\* "Recursion depth: " and "God Mode: ".
C8_FlagsOnlyEchoed ==
  twin.submitted =>
    /\ twin.mode = mode
    /\ twin.calls = calls
    /\ twin.error = error
    /\ twin.history_file = history_file
    /\ twin.txt_files = txt_files
    /\ mode = "normal" => twin.prompt_template = prompt_template
    /\ mode = "recursion" =>
         /\ Occurrences(prompt_template, <<"\n">> \o DepthLine) = 1
         /\ Occurrences(prompt_template, <<"\n">> \o GodModeLine) = 1
         /\ WithoutFlagLines(twin.prompt_template) = WithoutFlagLines(prompt_template)

\* C8 witness: in developer mode a recursion-mode submission at depth 4 or more with
\* god mode on appended a history row, and its twin's prompt differs from its own.
C8_Witness ==
  /\ twin.submitted
  /\ IS_DEV
  /\ mode = "recursion"
  /\ widgets.god_mode
  /\ "depth_warning" \in banners
  /\ twin.prompt_template # prompt_template
  /\ Len(history_file.rows) = 2
  /\ error = "none"

\* The presets as the catalog literal lists them, category by category.
CatalogEntries ==
  UNION {{[category |-> c.category, name |-> c.entries[e].name, data |-> c.entries[e].data] :
            e \in 1..Len(c.entries)} : c \in Range(templates_by_category)}

PresetNames == {e.name : e \in CatalogEntries}

\* The number of presets the categories hold, category by category.
RECURSIVE TotalEntries(_)
TotalEntries(cats) ==
  IF cats = << >> THEN 0 ELSE Len(Head(cats).entries) + TotalEntries(Tail(cats))

\* The empty defaults of the form.
EmptyDefaults(f) ==
  /\ f.goal = << >>
  /\ f.tone = ClearAndHelpful
  /\ f.output_type = TextFormat
  /\ f.audience = << >>
  /\ f.tone_index # 0
  /\ f.output_index # 0

\* C5: after a run that renders the form with a preset selected, the form's goal, tone,
\* output_type and audience are the four values the catalog literal holds under that
\* name (for "Cold Outreach Message" the Tucson goal, "Professional", "Text",
\* "Commercial property owners"), and they are what the widgets return until the user
\* submits other values; with no preset selected, or a name the catalog does not hold,
\* the fields are the empty defaults and nothing raises.
C5_PresetFillsForm ==
  /\ rendered = "form" =>
       /\ \A e \in CatalogEntries :
            selected_template = e.name =>
              /\ form.goal = e.data.goal
              /\ form.tone = e.data.tone
              /\ form.output_type = e.data.output_type
              /\ form.audience = e.data.audience
       /\ selected_template = "Cold Outreach Message" =>
            /\ form.goal = ColdOutreachGoal
            /\ form.tone = ColdOutreachTone
            /\ form.output_type = ColdOutreachOutputType
            /\ form.audience = ColdOutreachAudience
       /\ selected_template \notin PresetNames => EmptyDefaults(form)
       /\ ~submitted => widgets = DefaultWidgets(form)
       /\ ~uncaught
  /\ \A unknown \in {"", "No Such Preset", "Real Estate"} : EmptyDefaults(FormDefaults(unknown))

\* C5 witness: "Cold Outreach Message" is selected and its prefilled form was submitted
\* as it stood.
C5_Witness ==
  /\ rendered = "form"
  /\ selected_template = "Cold Outreach Message"
  /\ submitted
  /\ widgets.goal = ColdOutreachGoal
  /\ widgets.audience = ColdOutreachAudience
  /\ mode = "normal"

\* C10: every preset's tone is one of the 16 tone labels and its output_type one of the
\* 6 output formats; preset names are unique across the categories, so the flattened
\* lookups hold one entry per preset, each name mapped to its own data and to the
\* category that lists it; and after any sequence of preset and Surprise Me clicks the
\* selected preset is a catalog name (or none) and the form's index lookups succeed.
C10_CatalogInvariant ==
  /\ Len(valid_tones) = 16
  /\ Cardinality(Range(valid_tones)) = 16
  /\ Len(output_types) = 6
  /\ Cardinality(Range(output_types)) = 6
  /\ \A e \in CatalogEntries :
       /\ e.data.tone \in Range(valid_tones)
       /\ e.data.output_type \in Range(output_types)
       /\ e.name \in DOMAIN templates
       /\ templates[e.name] = e.data
       /\ template_categories[e.name] = e.category
  /\ Cardinality(DOMAIN templates) = TotalEntries(templates_by_category)
  /\ DOMAIN template_categories = DOMAIN templates
  /\ selected_template \in DOMAIN templates \cup {""}
  /\ raised # "index"
  /\ rendered = "form" =>
       /\ form.tone_index \in 1..Len(valid_tones)
       /\ form.output_index \in 1..Len(output_types)
       /\ valid_tones[form.tone_index] = Get(Prefill(selected_template), "tone", DefaultTone)

\* C10 witness: the last preset of the last category is selected and its tone and
\* format were found in the lists.
C10_Witness ==
  /\ rendered = "form"
  /\ selected_template = "Corporate Bullshit Translator"
  /\ form.tone_index = 15
  /\ form.output_index = 1

====
